---------------------------- MODULE Spec2Model ----------------------------
(***************************************************************************)
(* A model of the real-estate price matcher: the KChSI auction scraper,    *)
(* the imot.bg market scraper, the SQLite tables they fill, the analyzer   *)
(* (calculateSimilarity, findMatches, analyze) and the frontend card.      *)
(*                                                                         *)
(* Conventions.  A JavaScript null/undefined number is 0 (every test the   *)
(* code makes on such a field is a truthiness test, and SQL BETWEEN with a *)
(* positive lower bound rejects 0 as it rejects NULL); a null string is    *)
(* "null".  Prices are whole EUR, areas whole square metres.  Percentages  *)
(* rounded by Math.round(x * 10) / 10 are kept in tenths of a percent,     *)
(* similarity scores rounded by Math.round(x * 100) / 100 in hundredths.   *)
(* A text is a sequence of tokens [w, n]: w is a word or a unit and n the  *)
(* number written in front of it (0 when there is none).  Cyrillic words   *)
(* are transliterated.                                                     *)
(***************************************************************************)
EXTENDS Integers, Sequences, FiniteSets, TLC

VARIABLES
    kchsi,      \* table kchsi_properties: sequence of rows, row i has id i
    market,     \* table market_listings: sequence of rows, row i has id i
    matches,    \* table matches: set of rows
    found,      \* analyze: the findMatches result of each auction of the last run
    report,     \* analyze: the report written to data/latest-analysis.json
    deal,       \* page: allDeals, the deal loaded from deals.json
    discountFilter, \* page: the value of the discount select
    card,       \* page: the grid, the card rendered for the deal
    deals,      \* showStats: the rows of getBestDeals it prints
    raw,        \* extraction: the scraped page a record is built from
    extracted,  \* extraction: the record built from it
    pipe,       \* daily pipeline: the position of the script and the steps it has run
    app,        \* frontend/app.js: the clock, allDeals and the cards of the grid
    grid,       \* config.js: allDeals, the cards of the grid and the countdown timers
    scores      \* calculateSimilarity: an auction, two listings and their scores

vars ==
    <<kchsi, market, matches, found, report, deal, discountFilter, card, deals, raw, extracted,
      pipe, app, grid, scores>>

----------------------------------------------------------------------------
(* Bounds of the model *)

MaxMarket == 3      \* rows of market_listings
MaxTokens == 2      \* tokens of a scraped text
MaxRuns == 2        \* runs of the daily pipeline
MaxDay == 4         \* the last day the clock of the page reaches

(* Program constants *)

SQM_TOLERANCE_PCT == 20     \* CONFIG.SQM_TOLERANCE = 0.20
ROOMS_TOLERANCE == 1
FLOOR_TOLERANCE == 2
MIN_SIMILARITY_PCT == 50    \* CONFIG.MIN_SIMILARITY_SCORE = 0.5
MIN_DISCOUNT_PCT == 15
BGN_TO_EUR_PCT == 51        \* BGN_TO_EUR = 0.51
Today == 2                  \* date('now')
MAX_RETRIES == 3            \* attempts of the market scraper in the resilient pipeline

----------------------------------------------------------------------------
(* Arithmetic helpers *)

Abs(x) == IF x < 0 THEN -x ELSE x

\* Math.round(n / d) for d > 0: round half up (towards +Infinity)
RoundDiv(n, d) == (2 * n + d) \div (2 * d)

Range(s) == {s[i] : i \in 1..Len(s)}

\* a JavaScript value that may be absent, null or a number
Undefined == [t |-> "undefined", n |-> 0]
Null == [t |-> "null", n |-> 0]
Num(n) == [t |-> "number", n |-> n]

\* the value of v in arithmetic and comparisons, and of (v || 0)
ToNumber(v) == IF v.t = "number" THEN v.n ELSE 0

NoRaw == [given |-> FALSE]
NoRun == [started |-> FALSE]
NoPage == [loaded |-> FALSE]
NoScores == [scored |-> FALSE]
NoRecord == [built |-> FALSE]

Tok(w, n) == [w |-> w, n |-> n]

\* the token "<n>/<den>": a number, a slash and a number
Slash(n, den) == [w |-> "/", n |-> n, den |-> den]

LastDigit(n) == n % 10

RECURSIVE FirstDigit(_)
FirstDigit(n) == IF n < 10 THEN n ELSE FirstDigit(n \div 10)

HasWord(text, w) == \E i \in 1..Len(text) : text[i].w = w

\* the number of the first token with unit w, 0 when there is none
RECURSIVE FirstNum(_, _)
FirstNum(text, w) ==
    IF text = <<>> THEN 0
    ELSE IF Head(text).w = w THEN Head(text).n
    ELSE FirstNum(Tail(text), w)

\* the number of the first token whose unit is one of ws (one regex with
\* alternatives: the leftmost match), 0 when there is none
RECURSIVE FirstNumOf(_, _)
FirstNumOf(text, ws) ==
    IF text = <<>> THEN 0
    ELSE IF Head(text).w \in ws THEN Head(text).n
    ELSE FirstNumOf(Tail(text), ws)

----------------------------------------------------------------------------
(* src/scrapers/kchsi.js: field extraction for an auction *)

TARGET_CITIES == {"Sofia", "Plovdiv", "Varna", "Burgas"}

\* CITY_MAP, looked up with cityText.includes(pattern)
normalizeCity(cityText) ==
    CASE cityText \in {"gr. Sofia", "Sofia"} -> "Sofia"
      [] cityText \in {"gr. Plovdiv", "Plovdiv"} -> "Plovdiv"
      [] cityText \in {"gr. Varna", "Varna"} -> "Varna"
      [] cityText \in {"gr. Burgas", "Burgas"} -> "Burgas"
      [] OTHER -> "null"

\* "<n> kv.m" is the area pattern; 0 is null
extractSqm(description) == FirstNum(description, "kv.m")

\* the number words a token contains as a substring (descLower.includes(word))
NumberWordsIn(w) ==
    CASE w = "tristaen" -> {"tri", "tristaen"}
      [] w = "dvustaen" -> {"dvustaen"}
      [] w = "chetiristaen" -> {"chetiri", "chetiristaen"}
      [] w \in {"edna vtora", "edna treta", "edna chetvart", "edna osma"} -> {"edna"}
      [] w = "edna peta" -> {"edna", "pet"}
      [] w = "edna shesta" -> {"edna", "shest"}
      [] w = "dve treti" -> {"dve"}
      [] w = "tri chetvarti" -> {"tri"}
      [] OTHER -> {}

\* numberWords, in the order Object.entries walks it
numberWords ==
    << <<"edno", 1>>, <<"edna", 1>>, <<"edin", 1>>, <<"dve", 2>>, <<"dva", 2>>,
       <<"dvustaen", 2>>, <<"tri", 3>>, <<"tristaen", 3>>, <<"chetiri", 4>>,
       <<"chetiristaen", 4>>, <<"pet", 5>>, <<"petstaen", 5>>, <<"shest", 6>>,
       <<"mnogostaen", 6>> >>

TextIncludes(text, word) ==
    \E i \in 1..Len(text) : word \in NumberWordsIn(text[i].w)

\* extractRooms with the numeric patterns tried before the number words
extractRoomsNumericFirst(description) ==
    LET hits == {i \in 1..Len(numberWords) : TextIncludes(description, numberWords[i][1])}
    IN  IF HasWord(description, "-staen") THEN FirstNum(description, "-staen")
        ELSE IF HasWord(description, "stai") THEN FirstNum(description, "stai")
        ELSE IF hits # {}
        THEN numberWords[CHOOSE i \in hits : \A j \in hits : i <= j][2]
        ELSE 0

extractRooms(description) ==
    LET hits == {i \in 1..Len(numberWords) : TextIncludes(description, numberWords[i][1])}
    IN  IF hits # {}
        THEN numberWords[CHOOSE i \in hits : \A j \in hits : i <= j][2]
        ELSE IF HasWord(description, "-staen") THEN FirstNum(description, "-staen")
        ELSE IF HasWord(description, "stai") THEN FirstNum(description, "stai")
        ELSE 0

\* "et. <n>" and "etazh <n>"; no range check is made
extractFloor(description) ==
    IF HasWord(description, "et.") THEN FirstNum(description, "et.")
    ELSE IF HasWord(description, "etazh") THEN FirstNum(description, "etazh")
    ELSE 0

\* the fractions whose glyph or number-word alternative matches a word
FractionsIn(w) ==
    CASE w \in {"glyph 1/2", "edna vtora"} -> {"1/2"}
      [] w = "edna treta" -> {"1/3"}
      [] w \in {"glyph 1/4", "edna chetvart"} -> {"1/4"}
      [] w = "edna peta" -> {"1/5"}
      [] w = "edna shesta" -> {"1/6"}
      [] w = "edna osma" -> {"1/8"}
      [] w = "dve treti" -> {"2/3"}
      [] w = "tri chetvarti" -> {"3/4"}
      [] OTHER -> {}

\* the numeric alternatives a\s*\/\s*b: no anchor and no word boundary, so
\* a/b matches inside "<n>/<den>" when n ends in a and den starts with b
slashPatterns ==
    << <<1, 2>>, <<1, 3>>, <<1, 4>>, <<1, 5>>, <<1, 6>>, <<1, 8>>, <<2, 3>>, <<3, 4>> >>

ownershipPatterns == <<"1/2", "1/3", "1/4", "1/5", "1/6", "1/8", "2/3", "3/4">>

\* pattern i of the list matches inside the token
PatternMatches(i, tok) ==
    IF tok.w = "/"
    THEN LastDigit(tok.n) = slashPatterns[i][1] /\ FirstDigit(tok.den) = slashPatterns[i][2]
    ELSE ownershipPatterns[i] \in FractionsIn(tok.w)

detectPartialOwnership(description) ==
    LET hits == {i \in 1..Len(ownershipPatterns) :
                    \E j \in 1..Len(description) : PatternMatches(i, description[j])}
    IN  IF description = <<>> THEN "null"
        ELSE IF hits # {}
        THEN ownershipPatterns[CHOOSE i \in hits : \A j \in hits : i <= j]
        ELSE IF HasWord(description, "idealna chast") THEN "unknown"
        ELSE "null"

\* extractPropertyType without the final return 'other'
extractPropertyTypeNoDefault(description) ==
    IF HasWord(description, "apartament") \/ HasWord(description, "zhilishte") THEN "apartment"
    ELSE IF HasWord(description, "ofis") THEN "office"
    ELSE IF HasWord(description, "garazh") \/ HasWord(description, "parkomyasto") THEN "garage"
    ELSE "null"

extractPropertyType(description) ==
    IF HasWord(description, "apartament") \/ HasWord(description, "zhilishte") THEN "apartment"
    ELSE IF HasWord(description, "kashta") THEN "house"
    ELSE IF HasWord(description, "vila") THEN "villa"
    ELSE IF HasWord(description, "ofis") THEN "office"
    ELSE IF HasWord(description, "magazin") THEN "commercial"
    ELSE IF HasWord(description, "parcel") \/ HasWord(description, "zemya") THEN "land"
    ELSE IF HasWord(description, "garazh") \/ HasWord(description, "parkomyasto") THEN "garage"
    ELSE IF HasWord(description, "atelie") THEN "studio"
    ELSE IF HasWord(description, "sklad") THEN "warehouse"
    ELSE "other"

----------------------------------------------------------------------------
(* src/scrapers/imot-bg.js: field extraction for a market listing *)

\* priceText is [num, cur]: an amount tagged "EUR", "BGN" or "" (a bare number)
\* the eur of the result as a JavaScript value: parseFloat of an EUR amount,
\* Math.round(bgn * BGN_TO_EUR) of a BGN amount or of a bare number above 500
extractPriceEur(priceText) ==
    IF priceText.cur = "EUR" THEN Num(priceText.num)
    ELSE IF priceText.cur = "BGN" THEN Num(RoundDiv(priceText.num * BGN_TO_EUR_PCT, 100))
    ELSE IF priceText.num > 500 THEN Num(RoundDiv(priceText.num * BGN_TO_EUR_PCT, 100))
    ELSE Null

extractPrice(priceText) == ToNumber(extractPriceEur(priceText))

imotExtractSqm(text) == FirstNum(text, "kv.m")

\* roomWords, in the order Object.entries walks it
roomWords ==
    << <<"ednostaen", 1>>, <<"garsoniera", 1>>, <<"dvustaen", 2>>, <<"tristaen", 3>>,
       <<"chetiristaen", 4>>, <<"mnogostaen", 5>> >>

imotExtractRooms(text) ==
    LET hits == {i \in 1..Len(roomWords) : HasWord(text, roomWords[i][1])}
    IN  IF hits # {}
        THEN roomWords[CHOOSE i \in hits : \A j \in hits : i <= j][2]
        ELSE FirstNumOf(text, {"-staen", "stai"})

\* (\d+)\s*[\/ot]\s*(\d+) takes the number in front of the first slash; without
\* one, "et. <n>"; no range check is made
imotExtractFloor(text) ==
    IF HasWord(text, "/") THEN FirstNum(text, "/")
    ELSE IF HasWord(text, "et.") THEN FirstNum(text, "et.")
    ELSE 0

imotExtractPropertyType(text) ==
    IF text = <<>> THEN "other"
    ELSE IF HasWord(text, "garsoniera") THEN "studio"
    ELSE IF HasWord(text, "apartament") \/ HasWord(text, "-staen") THEN "apartment"
    ELSE IF HasWord(text, "kashta") THEN "house"
    ELSE IF HasWord(text, "vila") THEN "villa"
    ELSE IF HasWord(text, "ofis") THEN "office"
    ELSE IF HasWord(text, "magazin") THEN "commercial"
    ELSE IF HasWord(text, "parcel") \/ HasWord(text, "zemya") THEN "land"
    ELSE IF HasWord(text, "garazh") \/ HasWord(text, "parkomyasto") THEN "garage"
    ELSE IF HasWord(text, "atelie") THEN "studio"
    ELSE "apartment"

----------------------------------------------------------------------------
(* src/db/database.js and src/db/schema.sql *)

\* the columns of kchsi_properties a row is built from; the statement names no
\* other key of the property object, so property.partial_ownership is not stored
KchsiRow(id, property) ==
    [id |-> id,
     bcpea_id |-> property.bcpea_id,
     price_eur |-> property.price_eur,
     city |-> property.city,
     description |-> property.description,
     sqm |-> property.sqm,
     rooms |-> property.rooms,
     floor |-> property.floor,
     property_type |-> property.property_type,
     auction_end |-> property.auction_end]

\* the upsert with every column of the property written over the old row
upsertKchsiPropertyAllColumns(tbl, property) ==
    IF \E i \in 1..Len(tbl) : tbl[i].bcpea_id = property.bcpea_id
    THEN [i \in 1..Len(tbl) |->
            IF tbl[i].bcpea_id = property.bcpea_id THEN KchsiRow(tbl[i].id, property)
            ELSE tbl[i]]
    ELSE Append(tbl, KchsiRow(Len(tbl) + 1, property))

\* INSERT ... ON CONFLICT(bcpea_id) DO UPDATE SET price_eur, description, sqm,
\* rooms, floor, auction_end (city and property_type are not in the SET list)
upsertKchsiProperty(tbl, property) ==
    IF \E i \in 1..Len(tbl) : tbl[i].bcpea_id = property.bcpea_id
    THEN [i \in 1..Len(tbl) |->
            IF tbl[i].bcpea_id = property.bcpea_id
            THEN [tbl[i] EXCEPT !.price_eur = property.price_eur,
                                !.description = property.description,
                                !.sqm = property.sqm,
                                !.rooms = property.rooms,
                                !.floor = property.floor,
                                !.auction_end = property.auction_end]
            ELSE tbl[i]]
    ELSE Append(tbl, KchsiRow(Len(tbl) + 1, property))

\* a stable insertion of the pair p = <<key, row>> into a sequence of pairs
\* sorted by key: p goes behind the pairs of the same key
RECURSIVE InsertSorted(_, _)
InsertSorted(p, s) ==
    IF s = <<>> THEN <<p>>
    ELSE IF p[1] < Head(s)[1] THEN <<p>> \o s
    ELSE <<Head(s)>> \o InsertSorted(p, Tail(s))

RECURSIVE SortPairs(_)
SortPairs(s) ==
    IF s = <<>> THEN <<>>
    ELSE InsertSorted(s[Len(s)], SortPairs(SubSeq(s, 1, Len(s) - 1)))

\* a stable sort of the rows of s by ascending Key(row)
StableSort(s, Key(_)) ==
    LET sorted == SortPairs([i \in 1..Len(s) |-> <<Key(s[i]), s[i]>>])
    IN  [i \in 1..Len(s) |-> sorted[i][2]]

\* WHERE auction_end >= date('now') ORDER BY auction_end ASC
getActiveAuctions(tbl) ==
    StableSort(SelectSeq(tbl, LAMBDA r : r.auction_end >= Today),
            LAMBDA r : r.auction_end)

\* INSERT INTO market_listings: the table has no UNIQUE constraint
insertMarketListing(tbl, listing) ==
    Append(tbl, [listing EXCEPT !.id = Len(tbl) + 1])

\* WHERE city = ? AND sqm BETWEEN sqm*(1-tolerance) AND sqm*(1+tolerance)
\* ORDER BY sqm ASC
\* variant: the query without its city condition
getComparableListingsAnyCity(tbl, sqm, city, tolerancePct) ==
    StableSort(SelectSeq(tbl, LAMBDA r :
                /\ r.sqm > 0
                /\ 100 * r.sqm >= sqm * (100 - tolerancePct)
                /\ 100 * r.sqm <= sqm * (100 + tolerancePct)),
            LAMBDA r : r.sqm)

getComparableListings(tbl, sqm, city, tolerancePct) ==
    StableSort(SelectSeq(tbl, LAMBDA r :
                /\ r.city = city
                /\ r.sqm > 0
                /\ 100 * r.sqm >= sqm * (100 - tolerancePct)
                /\ 100 * r.sqm <= sqm * (100 + tolerancePct)),
            LAMBDA r : r.sqm)

\* INSERT OR REPLACE INTO matches, UNIQUE(kchsi_id, market_id)
insertMatch(tbl, match) ==
    {r \in tbl : ~(r.kchsi_id = match.kchsi_id /\ r.market_id = match.market_id)}
        \cup {match}

\* getBestDeals: one row for each match of an active auction, best first.  SQL
\* leaves the order of rows with equal price_difference_pct open: they come in
\* the order of (kchsi_id, market_id), ascending or descending
getBestDeals(mtbl, ktbl, ltbl, limit, ascending) ==
    LET joined == {[bcpea_id |-> ktbl[r.kchsi_id].bcpea_id,
                    kchsi_id |-> r.kchsi_id,
                    market_id |-> r.market_id,
                    price_eur |-> ktbl[r.kchsi_id].price_eur,
                    market_price |-> ltbl[r.market_id].price_eur,
                    similarity_score |-> r.similarity_score,
                    price_difference_eur |-> r.price_difference_eur,
                    price_difference_pct |-> r.price_difference_pct] :
                   r \in {x \in mtbl : ktbl[x.kchsi_id].auction_end >= Today}}
        TieKey(d) == d.kchsi_id * (Len(ltbl) + 1) + d.market_id
        Rank(d) == Cardinality({e \in joined :
                        \/ e.price_difference_pct > d.price_difference_pct
                        \/ /\ e.price_difference_pct = d.price_difference_pct
                           /\ IF ascending THEN TieKey(e) < TieKey(d)
                              ELSE TieKey(e) > TieKey(d)})
        n == IF Cardinality(joined) < limit THEN Cardinality(joined) ELSE limit
    IN  [i \in 1..n |-> CHOOSE d \in joined : Rank(d) = i - 1]

----------------------------------------------------------------------------
(* src/matching/analyzer.js *)

\* The score is kept as the exact fraction num / den: with S the auction's area,
\* every term has the denominator D = SQM_TOLERANCE * S * (ROOMS_TOLERANCE + 1)
\* * (FLOOR_TOLERANCE + 1), and the result is score / factors.
calculateSimilarity(k, m) ==
    LET S == IF k.sqm > 0 THEN k.sqm ELSE 1
        D == SQM_TOLERANCE_PCT * S * (ROOMS_TOLERANCE + 1) * (FLOOR_TOLERANCE + 1)
        hasSqm == k.sqm # 0 /\ m.sqm # 0
        sqmDiff == Abs(k.sqm - m.sqm)                  \* times 1 / S
        sqmOk == 100 * sqmDiff <= SQM_TOLERANCE_PCT * S
        hasRooms == k.rooms # 0 /\ m.rooms # 0
        roomDiff == Abs(k.rooms - m.rooms)
        roomsOk == hasRooms /\ roomDiff <= ROOMS_TOLERANCE
        hasFloor == k.floor # 0 /\ m.floor # 0
        floorDiff == Abs(k.floor - m.floor)
        floorOk == hasFloor /\ floorDiff <= FLOOR_TOLERANCE
        typeOk == /\ k.property_type # "null" /\ m.property_type # "null"
                  /\ k.property_type = m.property_type
        score ==
            (IF hasSqm
             THEN 3 * (SQM_TOLERANCE_PCT * S - 100 * sqmDiff)
                    * (ROOMS_TOLERANCE + 1) * (FLOOR_TOLERANCE + 1)
             ELSE 0)
          + (IF roomsOk
             THEN 2 * (ROOMS_TOLERANCE + 1 - roomDiff)
                    * SQM_TOLERANCE_PCT * S * (FLOOR_TOLERANCE + 1)
             ELSE 0)
          + (IF floorOk
             THEN (FLOOR_TOLERANCE + 1 - floorDiff)
                    * SQM_TOLERANCE_PCT * S * (ROOMS_TOLERANCE + 1)
             ELSE 0)
          + (IF typeOk THEN D ELSE 0)
        factors == (IF hasSqm THEN 3 ELSE 0) + (IF roomsOk THEN 2 ELSE 0)
                 + (IF floorOk THEN 1 ELSE 0) + (IF typeOk THEN 1 ELSE 0)
    IN  IF k.city # m.city THEN [num |-> 0, den |-> 1]
        ELSE IF hasSqm /\ ~sqmOk THEN [num |-> 0, den |-> 1]
        ELSE IF factors > 0 THEN [num |-> score, den |-> factors * D]
        ELSE [num |-> 0, den |-> 1]

\* similarity >= CONFIG.MIN_SIMILARITY_SCORE
SimilarEnough(sim) == 100 * sim.num >= MIN_SIMILARITY_PCT * sim.den

\* the object findMatches pushes for an accepted listing
\* variant: a deviation below zero is raised to zero
MakeMatchClamped(kchsiProperty, m) ==
    LET similarity == calculateSimilarity(kchsiProperty, m)
        priceDiffEur == m.price_eur - kchsiProperty.price_eur
        pct == RoundDiv(1000 * priceDiffEur, m.price_eur)
    IN  [kchsi_id |-> kchsiProperty.id,
         market_id |-> m.id,
         similarity_score |-> RoundDiv(100 * similarity.num, similarity.den),
         price_difference_eur |-> priceDiffEur,
         price_difference_pct |-> IF pct < 0 THEN 0 ELSE pct,
         market_listing |-> m]

MakeMatch(kchsiProperty, m) ==
    LET similarity == calculateSimilarity(kchsiProperty, m)
        priceDiffEur == m.price_eur - kchsiProperty.price_eur
    IN  [kchsi_id |-> kchsiProperty.id,
         market_id |-> m.id,
         similarity_score |-> RoundDiv(100 * similarity.num, similarity.den),
         price_difference_eur |-> priceDiffEur,
         price_difference_pct |-> RoundDiv(1000 * priceDiffEur, m.price_eur),
         market_listing |-> m]

\* variant: the loop stops after the first listing it accepts
findMatchesFirstOnly(kchsiProperty, marketListings) ==
    LET accepted == SelectSeq(marketListings, LAMBDA m :
                        /\ m.price_eur # 0 /\ m.sqm # 0
                        /\ kchsiProperty.price_eur # 0
                        /\ SimilarEnough(calculateSimilarity(kchsiProperty, m)))
    IN  IF accepted = <<>> THEN <<>>
        ELSE <<[kchsi_id |-> kchsiProperty.id,
                market_id |-> accepted[1].id,
                similarity_score |->
                    RoundDiv(100 * calculateSimilarity(kchsiProperty, accepted[1]).num,
                             calculateSimilarity(kchsiProperty, accepted[1]).den),
                price_difference_eur |-> accepted[1].price_eur - kchsiProperty.price_eur,
                price_difference_pct |->
                    RoundDiv(1000 * (accepted[1].price_eur - kchsiProperty.price_eur),
                             accepted[1].price_eur),
                market_listing |-> accepted[1]]>>

findMatches(kchsiProperty, marketListings) ==
    LET accepted == SelectSeq(marketListings, LAMBDA m :
                        /\ m.price_eur # 0 /\ m.sqm # 0
                        /\ kchsiProperty.price_eur # 0
                        /\ SimilarEnough(calculateSimilarity(kchsiProperty, m)))
        pushed == [i \in 1..Len(accepted) |-> MakeMatch(kchsiProperty, accepted[i])]
    IN  StableSort(pushed, LAMBDA x : 0 - x.price_difference_pct)

\* the row analyze hands to db.insertMatch
MatchRow(match) ==
    [kchsi_id |-> match.kchsi_id,
     market_id |-> match.market_id,
     similarity_score |-> match.similarity_score,
     price_difference_eur |-> match.price_difference_eur,
     price_difference_pct |-> match.price_difference_pct]

RECURSIVE InsertMatches(_, _)
InsertMatches(tbl, ms) ==
    IF ms = <<>> THEN tbl
    ELSE InsertMatches(insertMatch(tbl, MatchRow(Head(ms))), Tail(ms))

\* the comparables and the matches analyze computes for one auction
AuctionComparables(auction, mkt) ==
    IF auction.sqm = 0 \/ auction.price_eur = 0 THEN <<>>
    ELSE getComparableListings(mkt, auction.sqm, auction.city, SQM_TOLERANCE_PCT)

AuctionMatches(auction, mkt) ==
    LET comparables == AuctionComparables(auction, mkt)
    IN  IF comparables = <<>> THEN <<>> ELSE findMatches(auction, comparables)

\* whether analyze counts the auction as a deal
IsDeal(bestMatch) == bestMatch.price_difference_pct >= MIN_DISCOUNT_PCT * 10

\* one iteration of the loop over the active auctions; st holds the matches
\* table and the locals totalMatches, dealsFound, topDeals
AnalyzeAuction(st, auction, mkt) ==
    LET ms == AuctionMatches(auction, mkt)
        seen == [auction |-> auction,
                 comparables |-> AuctionComparables(auction, mkt),
                 matches |-> ms]
    IN  IF ms = <<>> THEN [st EXCEPT !.found = Append(@, seen)]
        ELSE [matches |-> InsertMatches(st.matches, ms),
              totalMatches |-> st.totalMatches + Len(ms),
              dealsFound |-> st.dealsFound + (IF IsDeal(ms[1]) THEN 1 ELSE 0),
              topDeals |-> IF IsDeal(ms[1])
                           THEN Append(st.topDeals, [auction |-> auction, match |-> ms[1]])
                           ELSE st.topDeals,
              found |-> Append(st.found, seen)]

RECURSIVE AnalyzeLoop(_, _, _)
AnalyzeLoop(st, auctions, mkt) ==
    IF auctions = <<>> THEN st
    ELSE AnalyzeLoop(AnalyzeAuction(st, Head(auctions), mkt), Tail(auctions), mkt)

\* an entry of report.topDeals
ReportDeal(d) ==
    [bcpea_id |-> d.auction.bcpea_id,
     city |-> d.auction.city,
     sqm |-> d.auction.sqm,
     rooms |-> d.auction.rooms,
     auction_price |-> d.auction.price_eur,
     market_price |-> d.match.market_listing.price_eur,
     discount_pct |-> d.match.price_difference_pct,
     savings_eur |-> d.match.price_difference_eur,
     auction_end |-> d.auction.auction_end]

NoReport == [written |-> FALSE, totalMatches |-> 0, dealsFound |-> 0, topDeals |-> <<>>]

----------------------------------------------------------------------------
(* The pages the scrapers read *)

AptText == <<Tok("apartament", 0), Tok("kv.m", 50)>>
PartialText == <<Slash(1, 4), Tok("idealna chast", 0), Tok("apartament", 0), Tok("kv.m", 50)>>
GarageText == <<Tok("garazh", 0), Tok("kv.m", 45)>>

BcpeaIds == {"84300", "85435"}

\* what sales.bcpea.org may show for a property: the list card's price, city
\* and period and the detail page's description
AuctionPages(bcpea_id) ==
    IF bcpea_id = "84300"
    THEN { [price_eur |-> 40000, city |-> "gr. Sofia", description |-> AptText, auction_end |-> 3],
           [price_eur |-> 40000, city |-> "Sofia", description |-> AptText, auction_end |-> 1],
           [price_eur |-> 40000, city |-> "gr. Varna", description |-> AptText, auction_end |-> 3],
           [price_eur |-> 40000, city |-> "Ruse", description |-> AptText, auction_end |-> 3] }
    ELSE { [price_eur |-> 10000, city |-> "gr. Sofia", description |-> PartialText, auction_end |-> 3],
           [price_eur |-> 20000, city |-> "Sofia", description |-> GarageText, auction_end |-> 3] }

\* what an imot.bg search may return for a city: each listing's id, its price
\* element and its text
MarketPages(city) ==
    IF city = "Sofia"
    THEN { [source_id |-> "s1", price |-> [num |-> 80000, cur |-> "EUR"],
            text |-> <<Tok("apartament", 0), Tok("kv.m", 50)>>],
           [source_id |-> "s2", price |-> [num |-> 300000, cur |-> "EUR"],
            text |-> <<Tok("apartament", 0), Tok("kv.m", 55)>>],
           [source_id |-> "s3", price |-> [num |-> 58824, cur |-> "BGN"],
            text |-> <<Tok("apartament", 0), Tok("kv.m", 48)>>] }
    ELSE {}

----------------------------------------------------------------------------
(* config.js: the page that shows deals.json.  A field of a deal that may be  *)
(* absent, null or a number is a record [t, n]; percentages are in tenths.   *)
(* allDeals holds one deal; of the filters only the discount select is kept. *)

NoDeal == [loaded |-> FALSE]
NoCard == [rendered |-> FALSE]

fmtPrice(p) == IF p = 0 THEN [known |-> FALSE, eur |-> 0] ELSE [known |-> TRUE, eur |-> p]

getRating(pct) ==
    IF pct < 0 THEN [level |-> "bad", stars |-> 1]
    ELSE IF pct >= 500 THEN [level |-> "excellent", stars |-> 5]
    ELSE IF pct >= 400 THEN [level |-> "great", stars |-> 4]
    ELSE IF pct >= 300 THEN [level |-> "good", stars |-> 3]
    ELSE IF pct >= 200 THEN [level |-> "fair", stars |-> 2]
    ELSE [level |-> "low", stars |-> 1]

\* deal.discount_pct !== undefined ? deal.discount_pct : (deal.discount || 0)
dealDiscountPct(d) ==
    IF d.discount_pct.t # "undefined" THEN ToNumber(d.discount_pct) ELSE ToNumber(d.discount)

createCard(d) ==
    LET bcpeaId == d.bcpea_id
        auctionPrice == IF d.auction_price # 0 THEN d.auction_price ELSE d.price
        comparables == d.comparables_count
        hasReliableMarketData == comparables > 0 /\ d.market_price # 0
        marketPrice == IF hasReliableMarketData THEN d.market_price ELSE 0
        discountPct == dealDiscountPct(d)
        savingsEur == IF d.savings_eur.t # "undefined" THEN ToNumber(d.savings_eur)
                      ELSE IF marketPrice # 0
                           THEN (IF marketPrice - auctionPrice > 0
                                 THEN marketPrice - auctionPrice ELSE 0)
                           ELSE 0
        r == getRating(discountPct)
        hasDataIssues == comparables = 0 \/ discountPct < 0
    IN  [rendered |-> TRUE,
         bcpeaId |-> bcpeaId,
         level |-> r.level,
         stars |-> r.stars,
         partialBadge |-> d.is_partial_ownership,
         discountValue |-> [sign |-> IF discountPct >= 0 THEN "-" ELSE "+",
                            pct |-> Abs(RoundDiv(discountPct, 10))],
         discountLabel |-> IF discountPct >= 0 THEN "OTSTAPKA" ELSE "NAD PAZARNATA",
         discountAmount |-> IF discountPct >= 0 THEN fmtPrice(savingsEur)
                            ELSE fmtPrice(marketPrice),
         ownershipWarning |-> d.partial_ownership # "null",
         dataWarning |-> IF ~hasDataIssues THEN "none"
                         ELSE IF comparables = 0 THEN "no comparison data"
                         ELSE "above market",
         priceSection |-> IF marketPrice # 0 THEN "comparison" ELSE "no market price",
         auctionPrice |-> fmtPrice(auctionPrice),
         marketPrice |-> fmtPrice(marketPrice),
         comparablesCount |-> comparables]

\* filter followed by render: the card of the deal, or the empty state
filter(d, minD) ==
    IF ~d.loaded \/ dealDiscountPct(d) < minD * 10 THEN NoCard ELSE createCard(d)

----------------------------------------------------------------------------
(* The state machine *)

Init ==
    /\ kchsi = <<>>
    /\ market = <<>>
    /\ matches = {}
    /\ found = <<>>
    /\ report = NoReport
    /\ deal = NoDeal
    /\ discountFilter = 0
    /\ card = NoCard
    /\ deals = <<>>
    /\ raw = NoRaw
    /\ extracted = NoRecord
    /\ pipe = NoRun
    /\ app = NoPage
    /\ grid = NoPage
    /\ scores = NoScores

\* kchsi.js main, one pass of the loop over allProperties: a property of a target
\* city is extracted from its detail page and saved
ScrapeKchsi(bcpea_id, page) ==
    LET description == page.description
        property == [bcpea_id |-> bcpea_id,
                     price_eur |-> page.price_eur,
                     city |-> normalizeCity(page.city),
                     description |-> description,
                     sqm |-> extractSqm(description),
                     rooms |-> extractRooms(description),
                     floor |-> extractFloor(description),
                     property_type |-> extractPropertyType(description),
                     auction_end |-> page.auction_end,
                     partial_ownership |-> detectPartialOwnership(description)]
    IN  /\ normalizeCity(page.city) \in TARGET_CITIES
        /\ kchsi' = upsertKchsiProperty(kchsi, property)
        /\ UNCHANGED <<market, matches, found, report, deal, discountFilter, card, deals, raw, extracted, pipe, app, grid, scores>>

\* imot-bg.js main, one pass of the loop over allListings of a city that has an
\* active auction: the listing is extracted from its detail page and inserted
ScrapeImot(city, page) ==
    LET active == getActiveAuctions(kchsi)
        fullText == page.text
        eur == extractPrice(page.price)
        sqm == imotExtractSqm(fullText)
        record == [id |-> 0,
                   source |-> "imot.bg",
                   source_id |-> page.source_id,
                   price_eur |-> eur,
                   city |-> city,
                   sqm |-> sqm,
                   rooms |-> imotExtractRooms(fullText),
                   floor |-> imotExtractFloor(fullText),
                   property_type |-> imotExtractPropertyType(fullText),
                   price_per_sqm |-> IF sqm # 0 /\ eur # 0 THEN RoundDiv(eur, sqm) ELSE 0]
    IN  /\ \E i \in 1..Len(active) : active[i].city = city
        /\ city \in TARGET_CITIES
        /\ Len(market) < MaxMarket
        /\ market' = insertMarketListing(market, record)
        /\ UNCHANGED <<kchsi, matches, found, report, deal, discountFilter, card, deals, raw, extracted, pipe, app, grid, scores>>

\* analyzer.js analyze: with an empty table it returns before anything is written
Analyze ==
    LET st == AnalyzeLoop([matches |-> matches, totalMatches |-> 0, dealsFound |-> 0,
                           topDeals |-> <<>>, found |-> <<>>],
                          getActiveAuctions(kchsi), market)
        topDeals == StableSort(st.topDeals, LAMBDA d : 0 - d.match.price_difference_pct)
    IN  /\ Len(kchsi) > 0
        /\ Len(market) > 0
        /\ matches' = st.matches
        /\ found' = st.found
        /\ report' = [written |-> TRUE,
                      totalMatches |-> st.totalMatches,
                      dealsFound |-> st.dealsFound,
                      topDeals |-> [i \in 1..Len(topDeals) |-> ReportDeal(topDeals[i])]]
        /\ UNCHANGED <<kchsi, market, deal, discountFilter, card, deals, raw, extracted, pipe, app, grid, scores>>

Next ==
    \/ \E b \in BcpeaIds : \E page \in AuctionPages(b) : ScrapeKchsi(b, page)
    \/ \E city \in TARGET_CITIES : \E page \in MarketPages(city) : ScrapeImot(city, page)
    \/ Analyze

Spec == Init /\ [][Next]_vars

----------------------------------------------------------------------------
(* findMatches on its own: the tables are filled by the scrapers, then        *)
(* findMatches is applied once to an auction and the listings in some order. *)

\* the listings of the market table in another order
Permuted(tbl, p) == [j \in 1..Len(tbl) |-> tbl[p[j]]]

FindMatches(i, p) ==
    /\ found = <<>>
    /\ found' = <<[auction |-> kchsi[i],
                   comparables |-> Permuted(market, p),
                   matches |-> findMatches(kchsi[i], Permuted(market, p))]>>
    /\ UNCHANGED <<kchsi, market, matches, report, deal, discountFilter, card, deals, raw, extracted, pipe, app, grid, scores>>

NextFind ==
    \/ found = <<>> /\ \E b \in BcpeaIds : \E page \in AuctionPages(b) : ScrapeKchsi(b, page)
    \/ found = <<>> /\ \E city \in TARGET_CITIES : \E page \in MarketPages(city) :
                            ScrapeImot(city, page)
    \/ \E i \in 1..Len(kchsi) : \E p \in Permutations(1..Len(market)) : FindMatches(i, p)

SpecFind == Init /\ [][NextFind]_vars

----------------------------------------------------------------------------
(* Ranking: two auctions of different size with their runs of analyze and     *)
(* of showStats.                                                             *)

BigAptText == <<Tok("apartament", 0), Tok("kv.m", 60)>>

RankIds == {"84300", "84744"}

RankPages(bcpea_id) ==
    IF bcpea_id = "84300"
    THEN { [price_eur |-> 40000, city |-> "gr. Sofia", description |-> AptText,
            auction_end |-> 3] }
    ELSE { [price_eur |-> 40000, city |-> "Sofia", description |-> BigAptText,
            auction_end |-> 2],
           [price_eur |-> 30000, city |-> "Sofia", description |-> BigAptText,
            auction_end |-> 2] }

\* index.js showStats: the statistics, and the top deals when there are matches
showStats(ascending) ==
    /\ deals' = IF matches # {} THEN getBestDeals(matches, kchsi, market, 5, ascending)
                ELSE <<>>
    /\ UNCHANGED <<kchsi, market, matches, found, report, deal, discountFilter, card,
                   raw, extracted, pipe, app, grid, scores>>

NextRank ==
    \/ \E b \in RankIds : \E page \in RankPages(b) : ScrapeKchsi(b, page)
    \/ \E page \in MarketPages("Sofia") : ScrapeImot("Sofia", page)
    \/ Analyze
    \/ \E ascending \in BOOLEAN : showStats(ascending)

SpecRank == Init /\ [][NextRank]_vars

----------------------------------------------------------------------------
(* The record each scraper builds from one scraped page.  A scraped text is  *)
(* a JavaScript value: undefined when the page gave none, else a string.     *)

Str(s) == [t |-> "string", n |-> 0, s |-> s]

\* the words the scraped texts are made of; the dotted cadastral identifier
\* 68134.1505.2367.8.1 is the number 68134 in front of ".1505.2367.8.1"
Words ==
    {Slash(1, 4), Slash(11, 25), Slash(419, 1001), Tok(".1505.2367.8.1", 68134),
     Tok("idealna chast", 0), Tok("edna chetvart", 0), Tok("tristaen", 0),
     Tok("-staen", 2), Tok("stai", 4), Tok("et.", 3), Tok("et.", 45),
     Tok("ofis", 0), Tok("apartament", 0), Tok("kv.m", 50)}

Texts == UNION {[1..k -> Words] : k \in 0..MaxTokens}

ScrapedTexts == {Undefined} \cup {Str(t) : t \in Texts}

\* the innerText of the price element, '' when the page has none
PriceStr(num, cur) == [t |-> "string", n |-> 0, num |-> num, cur |-> cur]

ScrapedPrices ==
    {Str(<<>>), PriceStr(0, "EUR"), PriceStr(80000, "EUR"), PriceStr(58824, "BGN"),
     PriceStr(100000, ""), PriceStr(300, ""), PriceStr(1, "BGN")}

\* the raw_text of a listing card
CardTexts == {Undefined, Str(<<Tok("kv.m", 48)>>)}

\* v || '' for a text
OrEmpty(v) == IF v.t = "string" THEN v ELSE Str(<<>>)

\* the number the bare-number pattern finds first
RECURSIVE FirstNumber(_)
FirstNumber(text) ==
    IF text = <<>> THEN 0
    ELSE IF Head(text).n > 0 THEN Head(text).n
    ELSE FirstNumber(Tail(text))

\* what the price patterns find in a text that is not a price element
TextPrice(text) ==
    IF HasWord(text, "EUR") THEN [num |-> FirstNum(text, "EUR"), cur |-> "EUR"]
    ELSE IF HasWord(text, "BGN") \/ HasWord(text, "lv")
    THEN [num |-> FirstNumOf(text, {"BGN", "lv"}), cur |-> "BGN"]
    ELSE [num |-> FirstNumber(text), cur |-> ""]

\* detail.description without the substitution of '' for a missing one
descriptionRaw(detail) == detail.description

\* kchsi.js main: const description = detail.description || ''
descriptionOf(detail) == OrEmpty(detail.description)

\* kchsi.js main: the property object.  extractSqm, extractRooms, extractFloor
\* and extractPropertyType call description.match or description.toLowerCase,
\* a TypeError on a description that is not a string; nothing in the loop
\* catches it, so no property is built
buildProperty(description) ==
    IF description.t # "string" THEN [built |-> FALSE, raised |-> TRUE]
    ELSE [built |-> TRUE, raised |-> FALSE, source |-> "kchsi",
          sqm |-> extractSqm(description.s),
          rooms |-> extractRooms(description.s),
          floor |-> extractFloor(description.s),
          property_type |-> extractPropertyType(description.s),
          partial_ownership |-> detectPartialOwnership(description.s)]

\* imot-bg.js main: detail.fullText || listing.raw_text || ''
fullTextOf(detail, listing) ==
    IF detail.fullText.t = "string" /\ detail.fullText.s # <<>> THEN detail.fullText.s
    ELSE OrEmpty(listing.raw_text).s

\* imot-bg.js main: the text extractPrice reads, detail.price || fullText
priceTextOf(detail, fullText) ==
    IF detail.price = Str(<<>>) THEN TextPrice(fullText)
    ELSE [num |-> detail.price.num, cur |-> detail.price.cur]

\* sqm && eur ? Math.round(eur / sqm) : null
pricePerSqm(sqm, eur) ==
    IF sqm # 0 /\ ToNumber(eur) # 0 THEN Num(RoundDiv(eur.n, sqm)) ELSE Null

\* imot-bg.js main: the record; every extractor returns at once on an empty text
buildRecord(detail, listing) ==
    LET fullText == fullTextOf(detail, listing)
        eur == extractPriceEur(priceTextOf(detail, fullText))
        sqm == imotExtractSqm(fullText)
    IN  [built |-> TRUE, raised |-> FALSE, source |-> "imot.bg",
         price_eur |-> eur,
         sqm |-> sqm,
         rooms |-> imotExtractRooms(fullText),
         floor |-> imotExtractFloor(fullText),
         property_type |-> imotExtractPropertyType(fullText),
         price_per_sqm |-> pricePerSqm(sqm, eur)]

\* kchsi.js main, the extraction of one pass of the loop over the scraped
\* detail pages; the passes share nothing, so one pass is followed
ExtractAuction ==
    /\ ~raw.given
    /\ \E description \in ScrapedTexts :
          LET detail == [description |-> description]
          IN  /\ raw' = [given |-> TRUE, source |-> "kchsi", text |-> detail.description,
                         card |-> Undefined, price |-> Str(<<>>)]
              /\ extracted' = buildProperty(descriptionOf(detail))
    /\ UNCHANGED <<kchsi, market, matches, found, report, deal, discountFilter, card, deals, pipe, app, grid, scores>>

\* imot-bg.js main, the extraction of one pass of the loop over the listings
ExtractListing ==
    /\ ~raw.given
    /\ \E fullText \in ScrapedTexts : \E price \in ScrapedPrices : \E raw_text \in CardTexts :
          LET detail == [fullText |-> fullText, price |-> price]
              listing == [raw_text |-> raw_text]
          IN  /\ raw' = [given |-> TRUE, source |-> "imot.bg", text |-> detail.fullText,
                         card |-> listing.raw_text, price |-> detail.price]
              /\ extracted' = buildRecord(detail, listing)
    /\ UNCHANGED <<kchsi, market, matches, found, report, deal, discountFilter, card, deals, pipe, app, grid, scores>>

NextExtract == ExtractAuction \/ ExtractListing

SpecExtract == Init /\ [][NextExtract]_vars

----------------------------------------------------------------------------
(* The daily pipeline scripts, RESILIENT and HARDENED.  pipe.step is the     *)
(* step the script is about to run, pipe.log the commands it has run with    *)
(* their exit codes, pipe.exit_code the exit code of the script once it has  *)
(* exited.                                                                   *)

\* the exit codes a step can end with
StepExits == {0, 1, 2, 3, 130}

Variants == {"resilient", "hardened"}

Exited(p, code) == [p EXCEPT !.step = "exited", !.exit_code = code]

Logged(p, cmd, resume, code) ==
    [p EXCEPT !.log = Append(@, [cmd |-> cmd, resume |-> resume, code |-> code])]

\* Step 1: if python3 scrapers/bcpea_scraper.py --incremental; ... else exit 1
auctionStep(p, code) ==
    LET q == Logged(p, "bcpea_scraper", FALSE, code)
    IN  IF code = 0 THEN [q EXCEPT !.step = "market"] ELSE Exited(q, 1)

\* the retry loop with a retry after every non-zero exit code
marketStepRetryAll(p, code) ==
    LET q == Logged(p, "market_scraper", p.resume, code)
    IN  IF code = 0 THEN [q EXCEPT !.step = "export"]
        ELSE IF p.attempt + 1 <= MAX_RETRIES
        THEN [q EXCEPT !.resume = TRUE, !.attempt = p.attempt + 1]
        ELSE Exited(q, 4)

\* the retry loop that goes on to the export when the attempts are used up
marketStepThenExport(p, code) ==
    LET q == Logged(p, "market_scraper", p.resume, code)
    IN  IF code = 0 THEN [q EXCEPT !.step = "export"]
        ELSE IF p.variant = "hardened" THEN Exited(q, 1)
        ELSE IF code = 2
        THEN IF p.attempt + 1 <= MAX_RETRIES
             THEN [q EXCEPT !.resume = TRUE, !.attempt = p.attempt + 1]
             ELSE [q EXCEPT !.step = "export"]
        ELSE Exited(q, 1)

\* Step 2, one run of the market scraper.  RESILIENT: one pass of the while
\* loop, and the test behind the loop when the pass was the last one;
\* HARDENED: if python3 scrapers/market_scraper.py; ... else exit 1
marketStep(p, code) ==
    LET q == Logged(p, "market_scraper", p.resume, code)
    IN  IF code = 0 THEN [q EXCEPT !.step = "export"]
        ELSE IF p.variant = "hardened" THEN Exited(q, 1)
        ELSE IF code = 2
        THEN IF p.attempt + 1 <= MAX_RETRIES
             THEN [q EXCEPT !.resume = TRUE, !.attempt = p.attempt + 1]
             ELSE Exited(q, 4)
        ELSE Exited(q, 1)

\* Step 3: if python3 export_deals.py; ... else exit 2
exportStep(p, code) ==
    LET q == Logged(p, "export_deals", FALSE, code)
    IN  IF code = 0 THEN [q EXCEPT !.step = "git"] ELSE Exited(q, 2)

\* Step 4 with exit 0 whatever git push returns
pushStepAlwaysZero(p, changes, code) ==
    IF changes THEN Exited(Logged(p, "git push", FALSE, code), 0) ELSE Exited(p, 0)

\* Step 4: with changes in the work tree git add, git commit || true and
\* git push, exit 3 when the push fails; without changes nothing is pushed
pushStep(p, changes, code) ==
    IF changes
    THEN Exited(Logged(p, "git push", FALSE, code), IF code = 0 THEN 0 ELSE 3)
    ELSE Exited(p, 0)

\* the scheduler starts the script, once a day, when no run is under way
StartPipeline(variant) ==
    /\ IF pipe.started THEN pipe.step = "exited" /\ pipe.run < MaxRuns ELSE TRUE
    /\ pipe' = [started |-> TRUE, run |-> IF pipe.started THEN pipe.run + 1 ELSE 1,
                variant |-> variant, step |-> "auction", attempt |-> 1,
                resume |-> FALSE, log |-> <<>>, exit_code |-> 0]
    /\ UNCHANGED <<kchsi, market, matches, found, report, deal, discountFilter, card, deals,
                   raw, extracted, app, grid, scores>>

RunAuctionScraper(code) ==
    /\ pipe.started /\ pipe.step = "auction"
    /\ pipe' = auctionStep(pipe, code)
    /\ UNCHANGED <<kchsi, market, matches, found, report, deal, discountFilter, card, deals,
                   raw, extracted, app, grid, scores>>

RunMarketScraper(code) ==
    /\ pipe.started /\ pipe.step = "market"
    /\ pipe' = marketStep(pipe, code)
    /\ UNCHANGED <<kchsi, market, matches, found, report, deal, discountFilter, card, deals,
                   raw, extracted, app, grid, scores>>

RunExport(code) ==
    /\ pipe.started /\ pipe.step = "export"
    /\ pipe' = exportStep(pipe, code)
    /\ UNCHANGED <<kchsi, market, matches, found, report, deal, discountFilter, card, deals,
                   raw, extracted, app, grid, scores>>

GitPush(changes, code) ==
    /\ pipe.started /\ pipe.step = "git"
    /\ pipe' = pushStep(pipe, changes, code)
    /\ UNCHANGED <<kchsi, market, matches, found, report, deal, discountFilter, card, deals,
                   raw, extracted, app, grid, scores>>

NextPipe ==
    \/ \E variant \in Variants : StartPipeline(variant)
    \/ \E code \in StepExits : RunAuctionScraper(code)
    \/ \E code \in StepExits : RunMarketScraper(code)
    \/ \E code \in StepExits : RunExport(code)
    \/ \E changes \in BOOLEAN : \E code \in StepExits : GitPush(changes, code)

SpecPipe == Init /\ [][NextPipe]_vars

\* every step terminates: a step that can run does run
SpecPipeLive == SpecPipe /\ WF_vars(NextPipe)

----------------------------------------------------------------------------
(* frontend/app.js: the page of the exporter's deals.json.  Dates are day    *)
(* numbers, 0 a missing auction_end; app.now is the day of new Date().  An   *)
(* auction_end is a date without a time, so Math.ceil((end - now) / 86400000)*)
(* is the difference of the days at every time of the day.                   *)

\* daysUntil: null without a date
appDaysUntil(d, now) == IF d = 0 THEN Null ELSE Num(d - now)

\* isExpired: days !== null && days < 0
isExpired(d, now) == appDaysUntil(d, now).t = "number" /\ appDaysUntil(d, now).n < 0

appGetRating(discount) ==
    IF discount.t # "number" \/ discount.n <= 0 THEN [level |-> "none", stars |-> 0]
    ELSE IF discount.n >= 400 THEN [level |-> "excellent", stars |-> 5]
    ELSE IF discount.n >= 300 THEN [level |-> "great", stars |-> 4]
    ELSE IF discount.n >= 200 THEN [level |-> "good", stars |-> 3]
    ELSE IF discount.n >= 100 THEN [level |-> "fair", stars |-> 2]
    ELSE [level |-> "low", stars |-> 1]

\* createCard of app.js, rendered on the day now
appCreateCard(d, now) ==
    LET isPartial == d.partial_ownership # "null"
        hasMarketData == d.market_avg # 0 /\ d.discount.t # "null" /\ ~isPartial
        r == IF hasMarketData THEN appGetRating(d.discount) ELSE [level |-> "none", stars |-> 0]
        days == appDaysUntil(d.auction_end, now)
        expired == isExpired(d.auction_end, now)
        isUrgent == days.t = "number" /\ days.n <= 7 /\ days.n >= 0
    IN  [bcpea_id |-> d.bcpea_id,
         auction_end |-> d.auction_end,
         level |-> r.level,
         partialBadge |-> isPartial,
         discountLabel |-> IF isPartial THEN "DROBNA"
                           ELSE IF hasMarketData THEN "OTSTAPKA" ELSE "NA M2",
         discountValue |-> IF isPartial \/ ~hasMarketData THEN Null
                           ELSE Num(RoundDiv(ToNumber(d.discount), 10)),
         auctionStatus |-> IF expired THEN "expired" ELSE IF isUrgent THEN "urgent" ELSE "none"]

\* the filter callback of filter(): of the selects only the discount one is kept
appPasses(d, minD) ==
    minD > 0 => (ToNumber(d.discount) # 0 /\ ToNumber(d.discount) >= minD * 10
                    /\ d.partial_ownership = "null")

\* sort 'best': (discount || 0) * (partial_ownership ? 0 : 1), descending
appScore(d) == IF d.partial_ownership = "null" THEN ToNumber(d.discount) ELSE 0

\* filter() and the render(filteredDeals) it ends with
appFilter(allDeals, minD, now) ==
    LET filteredDeals == StableSort(SelectSeq(allDeals, LAMBDA d : appPasses(d, minD)),
                                    LAMBDA d : 0 - appScore(d))
    IN  [i \in 1..Len(filteredDeals) |-> appCreateCard(filteredDeals[i], now)]

\* load(): the expired auctions are filtered out of allDeals
appLoadedDeals(data, now) ==
    SelectSeq(data, LAMBDA d : d.auction_end = 0
                                  \/ appDaysUntil(d.auction_end, now).n >= 0)

\* the entries of deals.json
AppDeal(bcpea_id, auction_end, discount, partial_ownership) ==
    [bcpea_id |-> bcpea_id, auction_end |-> auction_end, discount |-> discount,
     market_avg |-> 1500, partial_ownership |-> partial_ownership]

AppDeals(bcpea_id) ==
    {AppDeal(bcpea_id, end, x, o) : end \in {0, 1, 2, 3}, x \in {Null, Num(333)},
                                    o \in {"null", "1/4"}}

AppDealsJson ==
    {<<>>} \cup {<<a>> : a \in AppDeals("84300")}
           \cup {<<a, b>> : a \in AppDeals("84300"), b \in AppDeals("85435")}

\* load, on the day Today
appLoad(data) ==
    /\ ~app.loaded
    /\ app' = [loaded |-> TRUE, now |-> Today, minD |-> 0,
               allDeals |-> appLoadedDeals(data, Today),
               cards |-> appFilter(appLoadedDeals(data, Today), 0, Today)]
    /\ UNCHANGED <<kchsi, market, matches, found, report, deal, discountFilter, card, deals,
                   raw, extracted, pipe, grid, scores>>

\* change of the discount select, or reset: filter()
appChange(minD) ==
    /\ app.loaded
    /\ app' = [app EXCEPT !.minD = minD, !.cards = appFilter(app.allDeals, minD, app.now)]
    /\ UNCHANGED <<kchsi, market, matches, found, report, deal, discountFilter, card, deals,
                   raw, extracted, pipe, grid, scores>>

\* a day passes while the page is open; nothing of the page runs
appNextDay ==
    /\ app.loaded /\ app.now < MaxDay
    /\ app' = [app EXCEPT !.now = app.now + 1]
    /\ UNCHANGED <<kchsi, market, matches, found, report, deal, discountFilter, card, deals,
                   raw, extracted, pipe, grid, scores>>

NextApp ==
    \/ \E data \in AppDealsJson : appLoad(data)
    \/ \E minD \in {0, 30} : appChange(minD)
    \/ appNextDay

SpecApp == Init /\ [][NextApp]_vars

----------------------------------------------------------------------------
(* The page: deals.json is written by the exporter; its entries are drawn     *)
(* from the values below.                                                    *)

DealDiscounts == {Null, Num(0 - 333), Num(0), Num(500)}
DealComparables == {0, 1, 3}
DealMarketPrices == {0, 30000, 80000}
DealOwnership == {"null", "1/4"}
DiscountOptions == {0, 40}

\* an entry with the field names of the exporter
ExportedDeal(discount, comparables_count, market_price, partial_ownership) ==
    [loaded |-> TRUE, bcpea_id |-> "84300", auction_price |-> 0, price |-> 40000,
     sqm |-> 50, discount_pct |-> Undefined, discount |-> discount,
     savings_eur |-> Undefined, comparables_count |-> comparables_count,
     market_price |-> market_price, partial_ownership |-> partial_ownership,
     is_partial_ownership |-> partial_ownership # "null"]

\* an entry with the field names of report.topDeals
ReportedDeal(discount_pct, market_price) ==
    [loaded |-> TRUE, bcpea_id |-> "84300", auction_price |-> 40000, price |-> 0,
     sqm |-> 50, discount_pct |-> discount_pct, discount |-> Undefined,
     savings_eur |-> Num(market_price - 40000), comparables_count |-> 0,
     market_price |-> market_price, partial_ownership |-> "null",
     is_partial_ownership |-> FALSE]

DealsJson ==
    {ExportedDeal(x, c, mp, o) : x \in DealDiscounts, c \in DealComparables,
                                 mp \in DealMarketPrices, o \in DealOwnership}
        \cup {ReportedDeal(Num(500), 80000), ReportedDeal(Num(867), 300000),
              ReportedDeal(Null, 80000)}

InitCard ==
    /\ kchsi = <<>>
    /\ market = <<>>
    /\ matches = {}
    /\ found = <<>>
    /\ report = NoReport
    /\ deal = NoDeal
    /\ discountFilter \in DiscountOptions
    /\ card = NoCard
    /\ deals = <<>>
    /\ raw = NoRaw
    /\ extracted = NoRecord
    /\ pipe = NoRun
    /\ app = NoPage
    /\ grid = NoPage
    /\ scores = NoScores

\* load: deals.json is fetched, then filter renders it
load(d) ==
    /\ deal' = d
    /\ card' = filter(d, discountFilter)
    /\ UNCHANGED <<kchsi, market, matches, found, report, discountFilter, deals, raw, extracted, pipe, app, grid, scores>>

\* reset: the discount select goes to 40, then filter
reset ==
    /\ discountFilter' = 40
    /\ card' = filter(deal, 40)
    /\ UNCHANGED <<kchsi, market, matches, found, report, deal, deals, raw, extracted, pipe, app, grid, scores>>

\* rmFilter('discount'): the discount select goes to 0, then filter
rmFilter ==
    /\ discountFilter' = 0
    /\ card' = filter(deal, 0)
    /\ UNCHANGED <<kchsi, market, matches, found, report, deal, deals, raw, extracted, pipe, app, grid, scores>>

NextCard ==
    \/ \E d \in DealsJson : load(d)
    \/ reset
    \/ rmFilter

SpecCard == InitCard /\ [][NextCard]_vars

----------------------------------------------------------------------------
(* Vocabulary of the properties *)

MIN_COMPARABLES == 3        \* "Minimum comparables >= 3"
PSM_BAND_MIN == 200         \* "200 < price_per_sqm < 5000"
PSM_BAND_MAX == 5000

\* the auction's entry among report.topDeals, if any
Reported(auction) ==
    {j \in 1..Len(report.topDeals) : report.topDeals[j].bcpea_id = auction.bcpea_id}

\* the last run of analyze computed a discount for the auction of found[i]
GotDiscount(i) == found[i].matches # <<>>

Listings(ms) == [j \in 1..Len(ms) |-> ms[j].market_listing]

\* twice the median of a non-empty sequence of numbers
Median2(xs) ==
    LET sorted == StableSort(xs, LAMBDA x : x)
        n == Len(sorted)
    IN  IF n % 2 = 1 THEN 2 * sorted[(n + 1) \div 2]
        ELSE sorted[n \div 2] + sorted[n \div 2 + 1]

\* (M - a) / M * 100 in tenths of a percent, M the median price_per_sqm of the
\* listings and a = price_eur / sqm of the auction
MedianDeviation(auction, listings) ==
    LET M2 == Median2([j \in 1..Len(listings) |-> listings[j].price_per_sqm])
    IN  RoundDiv(1000 * (M2 * auction.sqm - 2 * auction.price_eur), M2 * auction.sqm)

----------------------------------------------------------------------------
(* C1: an auction whose description yields a non-null ownership fraction     *)
(* never receives a computed discount and is never reported as a deal.  The  *)
(* code does not keep it: the fraction is detected by the scraper but not    *)
(* stored, and analyze never looks at it.                                    *)
C1_PartialOwnershipNeverDiscounted ==
    \A i \in 1..Len(found) :
        detectPartialOwnership(found[i].auction.description) # "null"
            => ~GotDiscount(i) /\ Reported(found[i].auction) = {}

(* C2: an auction with fewer than MIN_COMPARABLES valid comparables never     *)
(* gets a discount and is never flagged as a deal.  The code has no such     *)
(* floor: one accepted listing is enough.                                    *)
C2_TooFewComparablesNeverDiscounted ==
    \A i \in 1..Len(found) :
        Len(found[i].matches) < MIN_COMPARABLES
            => ~GotDiscount(i) /\ Reported(found[i].auction) = {}

(* C3: an auction whose property type is not apartment is never matched       *)
(* against market listings and never gets a discount.  The code only adds a  *)
(* bonus for an equal type and matches any type.                             *)
C3_NonApartmentNeverMatched ==
    \A i \in 1..Len(found) :
        found[i].auction.property_type # "apartment"
            => ~GotDiscount(i) /\ Reported(found[i].auction) = {}

(* C4: with enough comparables the reported deviation is (M - a) / M * 100    *)
(* with M the median price_per_sqm of the comparables and a the auction's    *)
(* price_per_sqm.  The code reports the best single listing, on total price. *)
C4_DeviationIsMedianBased ==
    \A i \in 1..Len(found) :
        Len(found[i].matches) >= MIN_COMPARABLES
            => found[i].matches[1].price_difference_pct
                 = MedianDeviation(found[i].auction, Listings(found[i].matches))

WithinSelection(auction, listing) ==
    /\ listing.city = auction.city
    /\ 100 * Abs(listing.sqm - auction.sqm) <= SQM_TOLERANCE_PCT * auction.sqm

(* C7: every market listing accepted as a match for an auction has the same   *)
(* city as the auction and an area within +-SQM_TOLERANCE of the auction's   *)
(* area; so has every listing the query hands to findMatches.                *)
C7_MatchesSameCityWithinTolerance ==
    \A i \in 1..Len(found) :
        /\ \A j \in 1..Len(found[i].matches) :
            WithinSelection(found[i].auction, found[i].matches[j].market_listing)
        /\ \A j \in 1..Len(found[i].comparables) :
            WithinSelection(found[i].auction, found[i].comparables[j])

\* an auction was matched while the market table also held a listing outside
\* its area tolerance, and another auction of a different city found nothing
C7_Witness ==
    /\ \E i \in 1..Len(found) :
        /\ GotDiscount(i)
        /\ \E k \in 1..Len(market) :
            /\ market[k].city = found[i].auction.city
            /\ ~WithinSelection(found[i].auction, market[k])
    /\ \E i \in 1..Len(found) :
        /\ found[i].comparables = <<>>
        /\ \E k \in 1..Len(market) :
            /\ market[k].city # found[i].auction.city
            /\ 100 * Abs(market[k].sqm - found[i].auction.sqm)
                 <= SQM_TOLERANCE_PCT * found[i].auction.sqm

(* C8: no listing whose price_per_sqm lies outside 200..5000 EUR/m2 is used   *)
(* as a comparable or in the market figure of an auction.  The code has no   *)
(* such band.                                                                *)
C8_NoOutlierComparable ==
    \A i \in 1..Len(found) :
        /\ \A j \in 1..Len(found[i].matches) :
            LET l == found[i].matches[j].market_listing
            IN  l.price_per_sqm >= PSM_BAND_MIN /\ l.price_per_sqm <= PSM_BAND_MAX
        /\ \A j \in Reported(found[i].auction) :
            \A k \in 1..Len(found[i].matches) :
                LET l == found[i].matches[k].market_listing
                IN  report.topDeals[j].market_price = l.price_eur
                        => (l.price_per_sqm >= PSM_BAND_MIN
                            /\ l.price_per_sqm <= PSM_BAND_MAX)

(* C9: no market listing, identified by (source, source_id), appears more     *)
(* than once among the comparables of an auction, however often the scraper  *)
(* ran.  The table has no uniqueness constraint, so a second run stores the  *)
(* listing again.                                                            *)
C9_NoListingTwice ==
    \A i \in 1..Len(found) :
        /\ \A j, k \in 1..Len(found[i].comparables) :
            (found[i].comparables[j].source = found[i].comparables[k].source
             /\ found[i].comparables[j].source_id = found[i].comparables[k].source_id)
                => j = k
        /\ \A j, k \in 1..Len(found[i].matches) :
            (found[i].matches[j].market_listing.source
                 = found[i].matches[k].market_listing.source
             /\ found[i].matches[j].market_listing.source_id
                 = found[i].matches[k].market_listing.source_id)
                => j = k

(* C10: the set of matches findMatches returns for an auction, with each      *)
(* match's score and deviation, does not depend on the order of the market   *)
(* listings it is given: applied to any permutation of the table it returns  *)
(* the same set as applied to the table in the order of the ids.             *)
C10_FindMatchesOrderIndependent ==
    \A i \in 1..Len(found) :
        Range(found[i].matches)
            = Range(findMatches(found[i].auction,
                                StableSort(found[i].comparables, LAMBDA r : r.id)))

\* findMatches was given the listings in an order other than that of the ids,
\* accepted two with different deviations and rejected a third
C10_Witness ==
    \E i \in 1..Len(found) :
        /\ found[i].comparables # StableSort(found[i].comparables, LAMBDA r : r.id)
        /\ Len(found[i].matches) >= 2
        /\ Len(found[i].matches) < Len(found[i].comparables)
        /\ found[i].matches[1].price_difference_pct
             # found[i].matches[2].price_difference_pct

\* deals.json says that no market comparison was possible for the deal
NoComparisonPossible(d) ==
    /\ d.loaded
    /\ d.comparables_count = 0
    /\ d.discount_pct.t # "number" /\ d.discount.t # "number"

\* deals.json says that the deal was compared and is at or above market
AtOrAboveMarket(d) ==
    /\ d.loaded
    /\ d.comparables_count >= MIN_COMPARABLES /\ d.market_price # 0
    /\ d.discount.t = "number" /\ d.discount.n <= 0

(* C6: the card of an auction distinguishes "no market comparison possible"   *)
(* from "compared and at or above market": the two never give the same card, *)
(* and a deal without comparison is never shown with a numeric discount of   *)
(* zero.  createCard turns the missing discount into 0 and shows "-0%".      *)
C6_NoComparisonNeverZeroDiscount ==
    (card.rendered /\ NoComparisonPossible(deal))
        => /\ \A d \in DealsJson : AtOrAboveMarket(d) => createCard(d) # card
           /\ ~(card.discountValue.pct = 0 /\ card.discountLabel = "OTSTAPKA")

\* the number of matches the last run found for the auction of a report entry
ComparableCount(entry) ==
    LET hits == {i \in 1..Len(found) : found[i].auction.bcpea_id = entry.bcpea_id}
    IN  IF hits = {} THEN 0 ELSE Len(found[CHOOSE i \in hits : TRUE].matches)

Reliable(entry) == ComparableCount(entry) >= MIN_COMPARABLES

(* C11: the ranked list of deals has the reliable results before all others,  *)
(* then the larger deviation first, and among equal deviations the larger    *)
(* number of comparables first.  analyze sorts by deviation only.            *)
C11_RankedReliableThenDeviationThenCount ==
    \A i, j \in 1..Len(report.topDeals) :
        i < j =>
            LET a == report.topDeals[i]
                b == report.topDeals[j]
            IN  /\ Reliable(b) => Reliable(a)
                /\ (Reliable(a) <=> Reliable(b)) =>
                    /\ a.discount_pct >= b.discount_pct
                    /\ a.discount_pct = b.discount_pct
                         => ComparableCount(a) >= ComparableCount(b)

(* C12: every ranked list of deals has at most one entry per auction, and     *)
(* the entry refers to the auction's best match; for report.topDeals and     *)
(* for the rows of getBestDeals.  getBestDeals gives one row per match.      *)
C12_OneEntryPerAuction ==
    /\ \A i, j \in 1..Len(report.topDeals) :
        report.topDeals[i].bcpea_id = report.topDeals[j].bcpea_id => i = j
    /\ \A i \in 1..Len(report.topDeals) : \A k \in 1..Len(found) :
        found[k].auction.bcpea_id = report.topDeals[i].bcpea_id
            => \A m \in Range(found[k].matches) :
                    m.price_difference_pct <= report.topDeals[i].discount_pct
    /\ \A i, j \in 1..Len(deals) :
        deals[i].bcpea_id = deals[j].bcpea_id => i = j
    /\ \A i \in 1..Len(deals) : \A r \in matches :
        r.kchsi_id = deals[i].kchsi_id
            => r.price_difference_pct <= deals[i].price_difference_pct

----------------------------------------------------------------------------
(* Properties of the extracted record *)

\* the text the record was extracted from, '' when the page gave none
RawText ==
    IF raw.text.t = "string" /\ (raw.source = "kchsi" \/ raw.text.s # <<>>) THEN raw.text.s
    ELSE IF raw.card.t = "string" THEN raw.card.s
    ELSE <<>>

FromAuction == raw.given /\ raw.source = "kchsi" /\ extracted.built
FromListing == raw.given /\ raw.source = "imot.bg" /\ extracted.built

\* C13: for every record the market extractor builds, price_per_sqm is present
\* if and only if price_eur is present and the area is present and greater
\* than 0.
C13_PricePerSqmIffPriceAndArea ==
    FromListing =>
        ((extracted.price_per_sqm.t = "number")
            <=> (extracted.price_eur.t = "number" /\ extracted.sqm > 0))

\* the fractions a text names with a token that is itself a recognised
\* fraction: the slash number a/b, the glyph or the number words
TokenFractions(text) ==
    {ownershipPatterns[i] : i \in {k \in 1..Len(ownershipPatterns) :
        \E j \in 1..Len(text) :
            IF text[j].w = "/" THEN <<text[j].n, text[j].den>> = slashPatterns[k]
            ELSE ownershipPatterns[k] \in FractionsIn(text[j].w)}}

\* C14: detectPartialOwnership returns null, "unknown" or one of the eight
\* fractions; a text with a fraction token returns a fraction it names, also
\* when it contains "idealna chast"; "unknown" is returned only when "idealna
\* chast" occurs with no fraction token, and null only when neither occurs.
C14_OwnershipFractionOfTheText ==
    FromAuction =>
        /\ extracted.partial_ownership \in {"null", "unknown"} \cup Range(ownershipPatterns)
        /\ TokenFractions(RawText) # {} => extracted.partial_ownership \in TokenFractions(RawText)
        /\ extracted.partial_ownership = "unknown" =>
              HasWord(RawText, "idealna chast") /\ TokenFractions(RawText) = {}
        /\ extracted.partial_ownership = "null" =>
              ~HasWord(RawText, "idealna chast") /\ TokenFractions(RawText) = {}

\* C15: a fraction is reported only for a text with a recognisable fraction
\* token; a dotted cadastral identifier or a slash number that is not itself a
\* recognised fraction never yields one.
C15_NoFractionWithoutFractionToken ==
    FromAuction =>
        (extracted.partial_ownership \in Range(ownershipPatterns) => TokenFractions(RawText) # {})

\* the values of the vocabulary words a text contains, for each scraper
VocabularyRooms ==
    IF raw.source = "kchsi"
    THEN {numberWords[i][2] : i \in {k \in 1..Len(numberWords) :
                                        TextIncludes(RawText, numberWords[k][1])}}
    ELSE {roomWords[i][2] : i \in {k \in 1..Len(roomWords) : HasWord(RawText, roomWords[k][1])}}

\* the numbers of the "<N>-staen" and "<N> stai" patterns of a text
NumericRooms == {RawText[i].n : i \in {k \in 1..Len(RawText) : RawText[k].w \in {"-staen", "stai"}}}

\* C16: in extractRooms the vocabulary has priority over the numeric patterns:
\* with a vocabulary word in the text the rooms are the value of a vocabulary
\* word of the text, whatever the numeric patterns say; the numeric patterns
\* decide only when there is no vocabulary word; the result is always one of
\* the values found, never a combination of them.
C16_VocabularyBeforeNumericRooms ==
    (raw.given /\ extracted.built) =>
        /\ VocabularyRooms # {} => extracted.rooms \in VocabularyRooms
        /\ (VocabularyRooms = {} /\ NumericRooms # {}) => extracted.rooms \in NumericRooms
        /\ (VocabularyRooms = {} /\ NumericRooms = {}) => extracted.rooms = 0

\* "tristaen" stands next to "2-staen" in an auction description: 3 rooms
C16_Witness ==
    /\ FromAuction
    /\ HasWord(RawText, "tristaen") /\ HasWord(RawText, "-staen")
    /\ NumericRooms = {2}
    /\ extracted.rooms = 3

\* C17: extractFloor never reports a floor outside 1 to 30: a matched number
\* outside that range is discarded and the floor is absent (0).
C17_FloorWithinSanityBound ==
    (raw.given /\ extracted.built) => extracted.floor \in 0..30

PropertyTypes ==
    {"apartment", "studio", "house", "villa", "garage", "commercial", "land", "warehouse",
     "other"}

\* C18, as stated: the property type of a record is one of apartment, studio,
\* house, villa, garage, commercial, land, warehouse and other.
C18_PropertyTypeOfTheNine ==
    (raw.given /\ extracted.built) => extracted.property_type \in PropertyTypes

\* C18: the property type of a record, of an auction or of a listing, is one of
\* apartment, studio, house, villa, office, garage, commercial, land, warehouse
\* and other.
C18_PropertyTypeOfTheNineOrOffice ==
    (raw.given /\ extracted.built) => extracted.property_type \in PropertyTypes \cup {"office"}

\* an auction description and a listing text with "ofis" and no word of an
\* earlier keyword give the type office
C18_Witness ==
    /\ raw.given /\ extracted.built
    /\ HasWord(RawText, "ofis")
    /\ extracted.property_type = "office"

\* BGN to EUR at the fixed peg of 1.95583 BGN for 1 EUR, rounded to whole EUR
\* (long division in two steps keeps the products small)
PegEur(bgn) ==
    LET q1 == (bgn * 1000) \div 195583
        r1 == (bgn * 1000) % 195583
        q2 == (r1 * 100) \div 195583
        r2 == (r1 * 100) % 195583
    IN  q1 * 100 + q2 + (IF 2 * r2 >= 195583 THEN 1 ELSE 0)

\* the price element gives an amount in BGN: tagged BGN, or a bare number above 500
BgnPrice ==
    /\ FromListing
    /\ raw.price # Str(<<>>)
    /\ raw.price.cur = "BGN" \/ (raw.price.cur = "" /\ raw.price.num > 500)

\* C19: a price given in BGN, tagged or a bare number above the threshold, is
\* converted to EUR by dividing by the peg 1.95583.
C19_BgnDividedByPeg ==
    BgnPrice => extracted.price_eur = Num(PegEur(raw.price.num))

\* C20: extraction never raises: for every scraped page, also one with an empty
\* or a missing text, the record is built, and every field that the text does
\* not give is absent (the type is the default of the scraper) while the
\* fields the text gives are produced.
C20_ExtractionNeverRaises ==
    raw.given =>
        /\ extracted.built
        /\ ~extracted.raised
        /\ RawText = <<>> =>
              /\ extracted.sqm = 0 /\ extracted.rooms = 0 /\ extracted.floor = 0
              /\ extracted.property_type = "other"
        /\ (HasWord(RawText, "tristaen") /\ ~HasWord(RawText, "kv.m")) =>
              (extracted.sqm = 0 /\ extracted.rooms \in VocabularyRooms)

\* the detail page of an auction gave no description and the property is built
C20_Witness ==
    /\ raw.given /\ raw.source = "kchsi"
    /\ raw.text = Undefined
    /\ extracted.built
    /\ extracted.property_type = "other"

----------------------------------------------------------------------------


(***************************************************************************)
(* The page of config.js: the list of cards and their countdown timers.    *)
(* A timer is the handle setInterval returned: the render that started it  *)
(* and the position of its deal in that render.  grid.live is the set of   *)
(* intervals the browser is running.  The city, type and price inputs stay *)
(* at "all" and empty.                                                     *)
(***************************************************************************)

MaxRenders == 4
GridDiscounts == {0, 40}
GridPills == {"all", "ending", "best"}
GridSorts == {"best", "ending"}

\* a deal of deals.json; auction_end 0 is a missing date; every deal has the
\* same savings_eur, so the order of discount * log(savings + 1) is the order
\* of discount
GridDeal(bcpea_id, auction_end, discount_pct) ==
    [bcpea_id |-> bcpea_id, auction_end |-> auction_end, discount_pct |-> discount_pct]

GridDeals ==
    {GridDeal(b, x, d) : b \in {"84300", "85435"}, x \in {0, 3, 12}, d \in {20, 50}}

GridDealsJson ==
    {<<>>} \cup {<<a>> : a \in GridDeals} \cup {<<a, b>> : a \in GridDeals, b \in GridDeals}

\* startCountdown: nothing without an end date, else one more interval
startCountdown(timers, handle, endDate) ==
    IF endDate = 0 THEN timers ELSE Append(timers, handle)

RECURSIVE startCountdowns(_, _, _, _)
startCountdowns(timers, renderNo, ds, i) ==
    IF i > Len(ds) THEN timers
    ELSE startCountdowns(startCountdown(timers, [render |-> renderNo, slot |-> i],
                                        ds[i].auction_end),
                         renderNo, ds, i + 1)

\* render, variant: the array is emptied but its intervals are not cleared
gridRenderKeepIntervals(g, ds) ==
    [g EXCEPT !.renders = g.renders + 1,
              !.rendered = ds,
              !.cleared = {},
              !.countdownIntervals = startCountdowns(<<>>, g.renders + 1, ds, 1),
              !.live = g.live \cup Range(startCountdowns(<<>>, g.renders + 1, ds, 1))]

\* render: clear every interval of the array, empty it, draw the cards and
\* start the countdown of each
gridRender(g, ds) ==
    [g EXCEPT !.renders = g.renders + 1,
              !.rendered = ds,
              !.cleared = Range(g.countdownIntervals),
              !.countdownIntervals = startCountdowns(<<>>, g.renders + 1, ds, 1),
              !.live = (g.live \ Range(g.countdownIntervals))
                           \cup Range(startCountdowns(<<>>, g.renders + 1, ds, 1))]

gridDaysUntil(d) == d - Today

gridPasses(d, minD, pill) ==
    /\ d.discount_pct >= minD
    /\ pill = "ending" => (d.auction_end # 0 /\ gridDaysUntil(d.auction_end) <= 7)
    /\ pill = "best" => d.discount_pct >= 40

\* the sort keys: best is discount * log(savings + 1) descending, ending is
\* the end date ascending with a missing date last
gridSortKey(d, sort) ==
    IF sort = "best" THEN 0 - d.discount_pct
    ELSE IF d.auction_end = 0 THEN 9999 ELSE d.auction_end

\* filter: the deals that pass, sorted, then render
gridFilter(g) ==
    gridRender(g, StableSort(SelectSeq(g.allDeals,
                                       LAMBDA d : gridPasses(d, g.discount, g.pill)),
                             LAMBDA d : gridSortKey(d, g.sort)))

\* load, from the page's start or from window.loadDeals: fetch, then filter
gridLoad(data) ==
    /\ IF grid.loaded THEN grid.renders < MaxRenders ELSE TRUE
    /\ \E minD \in GridDiscounts :
          grid' = gridFilter(
              IF grid.loaded THEN [grid EXCEPT !.allDeals = data]
              ELSE [loaded |-> TRUE, allDeals |-> data, discount |-> minD,
                    pill |-> "all", sort |-> "best", renders |-> 0, rendered |-> <<>>,
                    cleared |-> {}, countdownIntervals |-> <<>>, live |-> {}])
    /\ UNCHANGED <<kchsi, market, matches, found, report, deal, discountFilter, card, deals,
                   raw, extracted, pipe, app, scores>>

\* change of the discount select or of the sort select: filter
gridChange(minD, sort) ==
    /\ grid.loaded /\ grid.renders < MaxRenders
    /\ grid' = gridFilter([grid EXCEPT !.discount = minD, !.sort = sort])
    /\ UNCHANGED <<kchsi, market, matches, found, report, deal, discountFilter, card, deals,
                   raw, extracted, pipe, app, scores>>

\* click on a pill: it becomes the active one, then filter
gridPillClick(pill) ==
    /\ grid.loaded /\ grid.renders < MaxRenders
    /\ grid' = gridFilter([grid EXCEPT !.pill = pill])
    /\ UNCHANGED <<kchsi, market, matches, found, report, deal, discountFilter, card, deals,
                   raw, extracted, pipe, app, scores>>

\* reset: discount 40, sort best, pill all, then filter
gridReset ==
    /\ grid.loaded /\ grid.renders < MaxRenders
    /\ grid' = gridFilter([grid EXCEPT !.discount = 40, !.sort = "best", !.pill = "all"])
    /\ UNCHANGED <<kchsi, market, matches, found, report, deal, discountFilter, card, deals,
                   raw, extracted, pipe, app, scores>>

NextGrid ==
    \/ \E data \in GridDealsJson : gridLoad(data)
    \/ \E minD \in GridDiscounts, sort \in GridSorts : gridChange(minD, sort)
    \/ \E pill \in GridPills : gridPillClick(pill)
    \/ gridReset

SpecGrid == Init /\ [][NextGrid]_vars

(***************************************************************************)
(* calculateSimilarity on two listings that differ in one dimension        *)
(***************************************************************************)

MaxRooms == 4
MaxFloor == 5
SimAreas == {40, 44, 48}
SimTypes == {"apartment", "house", "null"}

\* the fields of a row calculateSimilarity reads
SimProperty(sqm, rooms, floor, type) ==
    [city |-> "Sofia", sqm |-> sqm, rooms |-> rooms, floor |-> floor,
     property_type |-> type]

\* the auction scored against a listing inside the tolerance of one dimension
\* and against the same listing moved outside of it
scorePair(dimension, k, within, beyond) ==
    [scored |-> TRUE, dimension |-> dimension, kchsi |-> k,
     within |-> within, beyond |-> beyond,
     scoreWithin |-> calculateSimilarity(k, within),
     scoreBeyond |-> calculateSimilarity(k, beyond)]

ScoreRooms ==
    /\ ~scores.scored
    /\ \E sqm \in SimAreas, rooms \in 1..MaxRooms, floorK \in 0..MaxFloor,
          floorM \in 0..MaxFloor, typeK \in SimTypes, typeM \in SimTypes,
          r1 \in 1..MaxRooms, r2 \in 1..MaxRooms :
        /\ Abs(rooms - r1) <= ROOMS_TOLERANCE
        /\ Abs(rooms - r2) > ROOMS_TOLERANCE
        /\ scores' = scorePair("rooms", SimProperty(40, rooms, floorK, typeK),
                               SimProperty(sqm, r1, floorM, typeM),
                               SimProperty(sqm, r2, floorM, typeM))
    /\ UNCHANGED <<kchsi, market, matches, found, report, deal, discountFilter, card, deals,
                   raw, extracted, pipe, app, grid>>

ScoreFloors ==
    /\ ~scores.scored
    /\ \E sqm \in SimAreas, floor \in 1..MaxFloor, roomsK \in 0..MaxRooms,
          roomsM \in 0..MaxRooms, typeK \in SimTypes, typeM \in SimTypes,
          f1 \in 1..MaxFloor, f2 \in 1..MaxFloor :
        /\ Abs(floor - f1) <= FLOOR_TOLERANCE
        /\ Abs(floor - f2) > FLOOR_TOLERANCE
        /\ scores' = scorePair("floor", SimProperty(40, roomsK, floor, typeK),
                               SimProperty(sqm, roomsM, f1, typeM),
                               SimProperty(sqm, roomsM, f2, typeM))
    /\ UNCHANGED <<kchsi, market, matches, found, report, deal, discountFilter, card, deals,
                   raw, extracted, pipe, app, grid>>

NextSim == ScoreRooms \/ ScoreFloors

SpecSim == Init /\ [][NextSim]_vars

(* Properties of the daily pipeline *)

\* the positions of the log at which cmd was run
Runs(cmd) == {i \in 1..Len(pipe.log) : pipe.log[i].cmd = cmd}

\* cmd has exited with 0 before position i of the log
SucceededBefore(cmd, i) == \E j \in Runs(cmd) : j < i /\ pipe.log[j].code = 0

\* C21: the export starts only after the auction scraper and the market scraper
\* have both exited with 0, and git push only after the export has exited with
\* 0; the command run just before the export, and just before the push, has
\* succeeded.
C21_ExportAndPushOnlyAfterSuccess ==
    pipe.started =>
        /\ \A i \in Runs("export_deals") :
              /\ SucceededBefore("bcpea_scraper", i)
              /\ pipe.log[i - 1].cmd = "market_scraper" /\ pipe.log[i - 1].code = 0
        /\ \A i \in Runs("git push") :
              /\ SucceededBefore("bcpea_scraper", i)
              /\ SucceededBefore("market_scraper", i)
              /\ pipe.log[i - 1].cmd = "export_deals" /\ pipe.log[i - 1].code = 0

\* a resilient run whose market scraper was interrupted once has pushed
C21_Witness ==
    /\ pipe.started /\ pipe.variant = "resilient"
    /\ Runs("git push") # {}
    /\ \E i \in Runs("market_scraper") : pipe.log[i].code = 2

\* C22: in one run of the resilient pipeline the market scraper is started at
\* most MAX_RETRIES times, the first time without --resume and every later
\* time with it; a further attempt follows only an exit code 2, and any other
\* non-zero exit code ends the run with no further attempt.
C22_MarketScraperRetries ==
    (pipe.started /\ pipe.variant = "resilient") =>
        LET M == Runs("market_scraper")
        IN  /\ Cardinality(M) <= MAX_RETRIES
            /\ \A i \in M : pipe.log[i].resume <=> (\E j \in M : j < i)
            /\ \A i \in M : \A j \in M : i < j => pipe.log[i].code = 2
            /\ \A i \in M : pipe.log[i].code \notin {0, 2} =>
                  (i = Len(pipe.log) /\ pipe.step = "exited")

\* three attempts, the second and the third with --resume
C22_Witness ==
    /\ pipe.started /\ pipe.variant = "resilient"
    /\ Cardinality(Runs("market_scraper")) = MAX_RETRIES
    /\ pipe.log[Len(pipe.log)].cmd = "market_scraper" /\ pipe.log[Len(pipe.log)].resume

ResilientRun == pipe.started /\ pipe.variant = "resilient"
ResilientExit == ResilientRun /\ pipe.step = "exited"

\* the exit code of a finished resilient run is the documented one
ExitCodeDocumented ==
    ResilientExit =>
        LET log == pipe.log
            Failed(cmd) == \E i \in Runs(cmd) : log[i].code # 0
            M == Runs("market_scraper")
        IN  /\ pipe.exit_code \in {0, 1, 2, 3, 4}
            /\ pipe.exit_code = 0 <=>
                  /\ Runs("export_deals") # {}
                  /\ ~Failed("export_deals") /\ ~Failed("git push")
            /\ pipe.exit_code = 0 => \A cmd \in {"bcpea_scraper", "export_deals", "git push"} :
                                        ~Failed(cmd)
            /\ pipe.exit_code = 0 => log[Len(log)].code = 0
            /\ pipe.exit_code = 1 <=>
                  \/ Failed("bcpea_scraper")
                  \/ \E i \in M : log[i].code \notin {0, 2}
            /\ pipe.exit_code = 4 <=>
                  (Cardinality(M) = MAX_RETRIES /\ \A i \in M : log[i].code = 2)
            /\ pipe.exit_code = 2 <=> Failed("export_deals")
            /\ pipe.exit_code = 3 <=> Failed("git push")

\* C23: provided each step terminates, a run of the resilient pipeline always
\* terminates, and with the documented exit code: 0 only if every step
\* succeeded, 1 on a failure of the auction scraper or a non-resumable failure
\* of the market scraper, 4 only if the market scraper exited with 2 on all
\* three attempts, 2 on an export failure, 3 on a git push failure.
C23_TerminatesWithDocumentedExitCode ==
    /\ [](ExitCodeDocumented)
    /\ (ResilientRun ~> ResilientExit)

\* the market scraper was interrupted three times and the run ended with 4
C23_Witness ==
    /\ ResilientExit
    /\ pipe.exit_code = 4
    /\ Cardinality(Runs("market_scraper")) = MAX_RETRIES

----------------------------------------------------------------------------
(* Properties of the pages *)

\* C24: no auction whose auction_end lies in the past is displayed as an active
\* deal: at every moment after load every card of the grid whose auction_end is
\* before the current day carries the expired badge.
C24_NoExpiredAuctionShownActive ==
    app.loaded =>
        \A i \in 1..Len(app.cards) :
            (app.cards[i].auction_end # 0 /\ app.cards[i].auction_end < app.now)
                => app.cards[i].auctionStatus = "expired"

\* C25: for every deal flagged as partial ownership the rendered card shows
\* the partial-ownership badge and no discount percentage (the discount badge
\* is labelled neither as a discount nor as a price above the market),
\* whatever discount and market fields the deal carries.
C25_PartialOwnershipCardWithoutDiscount ==
    (card.rendered /\ deal.is_partial_ownership) =>
        /\ card.partialBadge
        /\ card.discountLabel \notin {"OTSTAPKA", "NAD PAZARNATA"}

----------------------------------------------------------------------------
(* Properties of the tables *)

\* the row of table tbl for an auction is what the upsert of this page leaves
\* in the columns it writes
WrittenFrom(row, page) ==
    /\ row.price_eur = page.price_eur
    /\ row.description = page.description
    /\ row.sqm = extractSqm(page.description)
    /\ row.rooms = extractRooms(page.description)
    /\ row.floor = extractFloor(page.description)
    /\ row.auction_end = page.auction_end

FreshMatches(mtbl, ktbl, ltbl) ==
    /\ \A r1 \in mtbl : \A r2 \in mtbl :
          (r1.kchsi_id = r2.kchsi_id /\ r1.market_id = r2.market_id) => r1 = r2
    /\ \A r \in mtbl :
          ktbl[r.kchsi_id].auction_end >= Today =>
              LET ms == AuctionMatches(ktbl[r.kchsi_id], ltbl)
              IN  \E i \in 1..Len(ms) : MatchRow(ms[i]) = r

\* C27: after analyze completes the matches table holds at most one row per
\* (kchsi_id, market_id) pair and every row of an analysed auction is a pair
\* that passes findMatches with the values now stored: no match of an earlier
\* run survives a change after which the pair no longer qualifies.
C27_NoStaleMatchAfterAnalyze ==
    [][(report' # report \/ matches' # matches \/ found' # found)
          => FreshMatches(matches', kchsi', market')]_vars

(***************************************************************************)
(* Properties of the similarity score                                      *)
(***************************************************************************)

\* C28: a listing whose room count (or floor) differs from the auction's by
\* more than the tolerance never gets a higher similarity score than the
\* otherwise identical listing whose room count (or floor) is within it.
C28_BeyondToleranceNeverScoresHigher ==
    scores.scored =>
        scores.scoreBeyond.num * scores.scoreWithin.den
            <= scores.scoreWithin.num * scores.scoreBeyond.den

(***************************************************************************)
(* Properties of the countdown timers                                      *)
(***************************************************************************)

\* C29: after any sequence of renders (load, filter changes, pill clicks,
\* reset) the running countdown timers are exactly those the most recent
\* render started, and there are no more of them than rendered deals.
C29_OnlyTimersOfLastRender ==
    grid.loaded =>
        /\ grid.live = Range(grid.countdownIntervals)
        /\ \A t \in grid.live : t.render = grid.renders
        /\ Cardinality(grid.live) <= Len(grid.rendered)

\* a later render that cleared the timers of the one before and drew two
\* deals, one of them without an end date
C29_Witness ==
    /\ grid.loaded /\ grid.renders >= 2
    /\ grid.cleared # {}
    /\ Len(grid.rendered) = 2
    /\ Cardinality(grid.live) = 1

=============================================================================
